---- MODULE Spec2Model ----
(***************************************************************************)
(* Model of test-code.py: fibonacci(n) prints the Fibonacci terms below n, *)
(* each followed by a space, and then a newline.  The function is modelled *)
(* statement by statement; standard output is a sequence of one-character  *)
(* strings that accumulates over successive calls.                         *)
(***************************************************************************)
EXTENDS Integers, Sequences, FiniteSets, TLC

\* ---------------------------------------------------------------- bounds
\* callers pass the bounds -NegBounds .. MaxBound (and the entry point its own)
NegBounds == 2
MaxBound == 9
\* number of invocations of fibonacci in one behaviour
MaxCalls == 2
\* cap on the loop iterations of one invocation; CapNeverBinds shows that
\* the code never reaches it for the bounds above
MaxTerms == 15

\* the literal bound of the entry point
EntryBound == 100

Bounds == (-NegBounds)..MaxBound

\* stand-ins for the value of a name that is not bound
Unbound == {0, 1}

VARIABLES
    pc,       \* position of the interpreter: "idle" outside fibonacci
    n,        \* parameter of the current (or last) invocation
    a,        \* local a
    b,        \* local b
    stdout,   \* everything written to standard output so far
    start,    \* length of stdout when the current invocation began
    emitted,  \* the values passed to print(a, end=' ') by this invocation
    history   \* one record per returned invocation

vars == <<pc, n, a, b, stdout, start, emitted, history>>

\* ------------------------------------------------------- pure functions
Digits == <<"0", "1", "2", "3", "4", "5", "6", "7", "8", "9">>

RECURSIVE StrNat(_)
StrNat(k) ==
    IF k < 10 THEN <<Digits[k + 1]>>
    ELSE StrNat(k \div 10) \o <<Digits[(k % 10) + 1]>>

\* str(k) of a Python int, as print applies it
Str(k) == IF k < 0 THEN <<"-">> \o StrNat(-k) ELSE StrNat(k)

\* a, b = 0, 1  (written the other way round)
InitPairSwapped == <<1, 0>>

\* a, b = 0, 1
InitPair == <<0, 1>>

\* while a <= n
LoopCondInclusive(x, m) == x <= m

\* while a != n
LoopCondNotEqual(x, m) == x # m

\* while a < n
LoopCond(x, m) == x < m

\* a = b; b = a + b  (two statements instead of one tuple assignment)
NextPairSequential(x, y) == <<y, y + y>>

\* a, b = b, a + b
NextPair(x, y) == <<y, x + y>>

\* print(a)  (end=' ' forgotten: print ends the text with a newline)
TermTextNoEnd(t) == Str(t) \o <<"\n">>

\* print(a, end=' ')
TermText(t) == Str(t) \o <<" ">>

\* print('')  with end='' : nothing is written
NewlineTextMissing == <<>>

\* print()
NewlineText == <<"\n">>

\* the text written by the current invocation
CallOut == SubSeq(stdout, start + 1, Len(stdout))

\* ------------------------------------------------------------------ Init
\* a and b are unbound before the first call: any value stands for them
Init ==
    /\ pc = "idle"
    /\ n = 0
    /\ a \in Unbound
    /\ b \in Unbound
    /\ stdout = <<>>
    /\ start = 0
    /\ emitted = <<>>
    /\ history = <<>>

\* --------------------------------------------------------------- actions
\* entering fibonacci(m) without executing line 3: a and b keep the values
\* the previous invocation left
EnterStale(m) ==
    /\ pc = "idle"
    /\ Len(history) < MaxCalls
    /\ n' = m
    /\ UNCHANGED <<a, b>>
    /\ start' = Len(stdout)
    /\ emitted' = <<>>
    /\ pc' = "while"
    /\ UNCHANGED <<stdout, history>>

\* entering fibonacci(m) and executing  a, b = 0, 1
Enter(m) ==
    /\ pc = "idle"
    /\ Len(history) < MaxCalls
    /\ n' = m
    /\ a' = InitPair[1]
    /\ b' = InitPair[2]
    /\ start' = Len(stdout)
    /\ emitted' = <<>>
    /\ pc' = "while"
    /\ UNCHANGED <<stdout, history>>

\* a caller invokes fibonacci with some bound
Call == \E m \in Bounds : Enter(m)

\* the entry point invokes fibonacci(100)
Main == Enter(EntryBound)

\* while a < n: the condition holds, the body is entered
LoopEnter ==
    /\ pc = "while"
    /\ LoopCond(a, n)
    /\ Len(emitted) < MaxTerms
    /\ pc' = "print"
    /\ UNCHANGED <<n, a, b, stdout, start, emitted, history>>

\* while a < n: the condition fails, the loop is left
LoopExit ==
    /\ pc = "while"
    /\ ~LoopCond(a, n)
    /\ pc' = "newline"
    /\ UNCHANGED <<n, a, b, stdout, start, emitted, history>>

\* print(a, end=' ')
PrintTerm ==
    /\ pc = "print"
    /\ stdout' = stdout \o TermText(a)
    /\ emitted' = Append(emitted, a)
    /\ pc' = "advance"
    /\ UNCHANGED <<n, a, b, start, history>>

\* a, b = b, a + b
Advance ==
    /\ pc = "advance"
    /\ a' = NextPair(a, b)[1]
    /\ b' = NextPair(a, b)[2]
    /\ pc' = "while"
    /\ UNCHANGED <<n, stdout, start, emitted, history>>

\* print() and return
PrintNewline ==
    /\ pc = "newline"
    /\ stdout' = stdout \o NewlineText
    /\ history' = Append(history,
                         [n |-> n,
                          out |-> SubSeq(stdout', start + 1, Len(stdout')),
                          emitted |-> emitted])
    /\ pc' = "idle"
    /\ UNCHANGED <<n, a, b, start, emitted>>

\* one statement of a running invocation
Step == LoopEnter \/ LoopExit \/ PrintTerm \/ Advance \/ PrintNewline

Next == Call \/ Main \/ LoopEnter \/ LoopExit \/ PrintTerm \/ Advance
          \/ PrintNewline

Spec == Init /\ [][Next]_vars

\* fibonacci is synchronous: once entered it runs to its return
LiveSpec == Init /\ [][Next]_vars /\ WF_vars(Step)

\* ------------------------------------------------- reference definitions
\* the first k terms of the Fibonacci sequence 0, 1, 1, 2, 3, 5, ...
RECURSIVE FibSeq(_)
FibSeq(k) ==
    IF k = 0 THEN <<>>
    ELSE IF k = 1 THEN <<0>>
    ELSE IF k = 2 THEN <<0, 1>>
    ELSE LET s == FibSeq(k - 1) IN Append(s, s[k - 1] + s[k - 2])

\* the k-th term, counting from 0
Fib(k) == FibSeq(k + 1)[k + 1]

IsPrefix(s, t) == Len(s) <= Len(t) /\ s = SubSeq(t, 1, Len(s))

Count(c, s) == Cardinality({i \in 1..Len(s) : s[i] = c})

\* the terms rendered with one space strictly between consecutive terms
RECURSIVE JoinBetween(_)
JoinBetween(ts) ==
    IF ts = <<>> THEN <<>>
    ELSE IF Len(ts) = 1 THEN Str(ts[1])
    ELSE Str(ts[1]) \o <<" ">> \o JoinBetween(Tail(ts))

\* the terms rendered with one space after every term
RECURSIVE JoinAfter(_)
JoinAfter(ts) ==
    IF ts = <<>> THEN <<>>
    ELSE Str(ts[1]) \o <<" ">> \o JoinAfter(Tail(ts))

Returned == {history[i] : i \in 1..Len(history)}

Running == pc # "idle"

Terms100 == <<0, 1, 1, 2, 3, 5, 8, 13, 21, 34, 55, 89>>

Text100 ==
    <<"0", " ", "1", " ", "1", " ", "2", " ", "3", " ", "5", " ", "8", " ",
      "1", "3", " ", "2", "1", " ", "3", "4", " ", "5", "5", " ", "8", "9">>

\* the iteration cap of the model is never what stops a loop
CapNeverBinds ==
    (pc = "while" /\ LoopCond(a, n)) => Len(emitted) < MaxTerms

\* ---------------------------------------------------------------- claims

\* C1: one call fibonacci(n) emits, in order, exactly the Fibonacci terms
\* 0, 1, 1, 2, 3, 5, ... up to but not including the first term >= n:
\* while running the emitted values are an initial segment of the sequence
\* all below n, and at return the next term of the sequence is >= n; for
\* n = 100 the emitted values are 0 1 1 2 3 5 8 13 21 34 55 89.
C1_EmitsFibonacciBelowBound ==
    /\ Running =>
          /\ emitted = FibSeq(Len(emitted))
          /\ \A i \in 1..Len(emitted) : emitted[i] < n
    /\ \A h \in Returned :
          /\ h.emitted = FibSeq(Len(h.emitted))
          /\ \A i \in 1..Len(h.emitted) : h.emitted[i] < h.n
          /\ Fib(Len(h.emitted)) >= h.n
          /\ h.n = EntryBound => h.emitted = Terms100

C1_Witness ==
    /\ \E h \in Returned : h.n = EntryBound /\ Len(h.emitted) = 12
    /\ \E h \in Returned : h.n = 4 /\ h.emitted = <<0, 1, 1, 2, 3>>

\* C2 (as stated): the text written by fibonacci(n) is the decimal
\* renderings of the emitted terms with a single space strictly between
\* consecutive terms and none after the last, followed by a newline
\* ("0\n" for n = 1, "0 1\n" for n = 2).
C2_SpaceOnlyBetweenTerms ==
    \A h \in Returned :
        /\ h.out = JoinBetween(h.emitted) \o <<"\n">>
        /\ h.n = 1 => h.out = <<"0", "\n">>
        /\ h.n = 2 => h.out = <<"0", " ", "1", "\n">>
        /\ h.n = EntryBound => h.out = Text100 \o <<"\n">>

\* C2 (amended): the text written by fibonacci(n) is the decimal rendering
\* of every emitted term, each followed by a single space (the last term
\* included), followed by a newline: "0 \n" for n = 1, "0 1 1 \n" for n = 2
\* (both terms equal to 1 are below 2), "0 1 1 2 3 5 8 13 21 34 55 89 \n"
\* for n = 100.
C2_SpaceAfterEveryTerm ==
    \A h \in Returned :
        /\ h.out = JoinAfter(h.emitted) \o <<"\n">>
        /\ h.n = 1 => h.out = <<"0", " ", "\n">>
        /\ h.n = 2 => h.out = <<"0", " ", "1", " ", "1", " ", "\n">>
        /\ h.n = EntryBound => h.out = Text100 \o <<" ", "\n">>

C2_Witness ==
    /\ \E h \in Returned : h.n = EntryBound /\ Len(h.out) = 30
    /\ \E h \in Returned : h.n = 2 /\ h.emitted = <<0, 1, 1>>
    /\ pc = "idle"

\* C3: for every bound n <= 0 the loop body is never entered and the
\* output of the call is exactly a newline.
C3_NonPositiveBoundOnlyNewline ==
    /\ (Running /\ n <= 0) =>
          /\ pc \in {"while", "newline"}
          /\ emitted = <<>>
          /\ CallOut = <<>>
    /\ \A h \in Returned :
          h.n <= 0 => (h.emitted = <<>> /\ h.out = <<"\n">>)

C3_Witness ==
    /\ \E h \in Returned : h.n = 0 /\ h.out = <<"\n">>
    /\ \E h \in Returned : h.n < 0 /\ h.out = <<"\n">>

\* C4: every emitted term is below n, and every emitted term from the
\* third onward is the sum of the two terms emitted just before it; the
\* second emitted term is 1.
EmittedRecurrence(ts, m) ==
    /\ \A i \in 1..Len(ts) : ts[i] < m
    /\ Len(ts) >= 2 => ts[2] = 1
    /\ \A i \in 3..Len(ts) : ts[i] = ts[i - 1] + ts[i - 2]

C4_TermsBelowBoundAndRecurrence ==
    /\ Running => EmittedRecurrence(emitted, n)
    /\ \A h \in Returned : EmittedRecurrence(h.emitted, h.n)

C4_Witness ==
    \E h \in Returned : Len(h.emitted) >= 5 /\ h.emitted[5] = 3

\* C5: every invocation terminates: from any point inside fibonacci(n) the
\* loop condition eventually fails (a >= n) and the newline is written,
\* which returns the call.
C5_Terminates ==
    Running ~>
        (/\ pc = "idle"
         /\ a >= n
         /\ Len(stdout) > 0
         /\ stdout[Len(stdout)] = "\n")

C5_Witness ==
    /\ pc = "idle"
    /\ \E h \in Returned : h.n < 0
    /\ \E h \in Returned : h.n = EntryBound /\ Len(h.emitted) = 12

\* C6: for bounds n1 <= n2 the terms emitted by fibonacci(n1) are a prefix
\* of the terms emitted by fibonacci(n2), in whatever order the two calls
\* are made.
C6_Monotone ==
    \A h1 \in Returned : \A h2 \in Returned :
        h1.n <= h2.n => IsPrefix(h1.emitted, h2.emitted)

C6_Witness ==
    /\ Len(history) = 2
    /\ history[1].n > history[2].n
    /\ history[2].emitted # <<>>
    /\ Len(history[2].emitted) < Len(history[1].emitted)

\* C7: two calls with the same bound write the same text and emit the same
\* terms, whatever was called before; every invocation begins its loop
\* with (a, b) = (0, 1).
C7_RestartableIdempotent ==
    /\ \A h1 \in Returned : \A h2 \in Returned :
          h1.n = h2.n => (h1.out = h2.out /\ h1.emitted = h2.emitted)
    /\ (pc = "while" /\ emitted = <<>>) => (a = 0 /\ b = 1)

C7_Witness ==
    /\ Len(history) = 2
    /\ history[1].n = history[2].n
    /\ Len(history[1].emitted) >= 4
    /\ start > 0

\* C8 (as stated): at each check of the loop condition a holds the value
\* last emitted (0 before any emission) and b holds a's successor.
C8_AHoldsLastEmitted ==
    pc = "while" =>
        /\ a = (IF emitted = <<>> THEN 0 ELSE emitted[Len(emitted)])
        /\ b = Fib(Len(emitted) + 1)

\* C8 (amended): at each check of the loop condition a holds the term that
\* follows the last emitted one in the Fibonacci sequence, that is the next
\* term to be emitted if it is below n (the initial 0 before any emission),
\* and b holds a's successor: b = a + (the value last emitted).
C8_AHoldsNextTerm ==
    pc = "while" =>
        /\ a = Fib(Len(emitted))
        /\ b = Fib(Len(emitted) + 1)
        /\ emitted # <<>> => b = a + emitted[Len(emitted)]

C8_Witness ==
    pc = "while" /\ Len(emitted) = 6 /\ a = 8 /\ b = 13

\* C9: every invocation writes exactly one newline, as its last character,
\* after every term: a running invocation has written no newline yet.
C9_OneFinalNewline ==
    /\ Running => Count("\n", CallOut) = 0
    /\ \A h \in Returned :
          /\ Count("\n", h.out) = 1
          /\ h.out[Len(h.out)] = "\n"
    /\ Count("\n", stdout) = Len(history)

C9_Witness ==
    /\ \E h \in Returned : h.emitted = <<>>
    /\ \E h \in Returned : Len(h.emitted) = 1
    /\ Len(history) = 2
    /\ pc = "idle"

\* C10: inside fibonacci, 0 <= a <= b and b >= 1; the emitted terms are
\* non-decreasing, strictly increasing from the third term onward, and 1 is
\* the only value emitted twice.
EmittedOrdered(ts) ==
    /\ \A i \in 1..(Len(ts) - 1) : ts[i] <= ts[i + 1]
    /\ \A i \in 3..(Len(ts) - 1) : ts[i] < ts[i + 1]
    /\ \A i \in 1..Len(ts) : \A j \in 1..Len(ts) :
          (i # j /\ ts[i] = ts[j]) => ts[i] = 1

C10_PairOrderedTermsIncreasing ==
    /\ Running => (0 <= a /\ a <= b /\ b >= 1)
    /\ Running => EmittedOrdered(emitted)
    /\ \A h \in Returned : EmittedOrdered(h.emitted)

C10_Witness ==
    /\ pc = "advance" /\ a = 1 /\ b = 1
    /\ \E h \in Returned : Len(h.emitted) >= 5

====
